---- MODULE Spec2Model ----
(***************************************************************************)
(* Streaming session engine of the chat UI:                                *)
(*   AiStreamService  - socket lifecycle, reconnect timer, send            *)
(*   App              - the conversation store driven by stream events     *)
(* Source: src/UI/src/app/services/ai-stream.service.ts                    *)
(***************************************************************************)
EXTENDS Integers, Sequences, FiniteSets, TLC

VARIABLES
    agentSocketUrl,   \* environment.agentSocketUrl is configured
    platformBrowser,  \* isPlatformBrowser(platformId)
    net,              \* AiStreamService fields and the transport sessions it created
    userClosed,       \* history: disconnect() was called and no send operation since
    conversationId,   \* App.conversationId signal
    messages,         \* App.messages signal
    bornVisible,      \* history: response ids whose message was created with visible = true
    script,           \* event sequence replayed by the scripted specification
    pc                \* number of events of the script already processed

vars == <<agentSocketUrl, platformBrowser, net, userClosed, conversationId,
          messages, bornVisible, script, pc>>

(***************************************************************************)
(* Bounds                                                                  *)
(***************************************************************************)
MaxSessions == 3        \* transport sessions that have not closed yet
MaxLoad == 1            \* user messages plus tokens held by the message sequence
MaxScriptTokens == 2    \* token events of a replayed script
MaxConversations == 2   \* conversation ids handed out
MaxFrames == 3          \* raw frames of a replayed frame script

Undefined == "undefined"

\* An optional field is a sequence of length 0 (absent) or 1 (present).
None == <<>>
Some(v) == <<v>>
Opt(S) == {None} \cup {Some(v) : v \in S}
\* the ?? operator
Coalesce(opt, default) == IF opt = None THEN default ELSE opt[1]

(***************************************************************************)
(* AiStreamService                                                         *)
(***************************************************************************)
AgentConnectionStatus == {"disconnected", "connecting", "connected", "reconnecting"}

SessionIds == 1..MaxSessions
\* a session slot is free when no socket lives in it
NoSession == [phase |-> "none", errored |-> FALSE, disposed |-> FALSE]
FreeSlots(n) == {s \in SessionIds : n.sessions[s].phase \in {"none", "closed"}}
LiveSessions(n) == {s \in SessionIds : n.sessions[s].phase \in {"connecting", "open"}}

\* fields of a freshly constructed service, before the constructor body runs
NewService ==
    [socket |-> 0, connectionState |-> "disconnected", reconnectTimer |-> FALSE,
     manualClose |-> FALSE, sessions |-> [s \in SessionIds |-> NoSession],
     written |-> 0, sendConnected |-> FALSE, pendingTimers |-> 0]

\* complete() marks the session of the socket as disposed; its close
\* notification comes later
disposeSocket(n) ==
    [n EXCEPT !.reconnectTimer = FALSE, !.socket = 0,
              !.pendingTimers = IF n.reconnectTimer THEN @ - 1 ELSE @,
              !.sessions = IF n.socket = 0 THEN @
                           ELSE [@ EXCEPT ![n.socket].disposed = TRUE]]

\* variant: the new socket is created without disposing of the previous one
connect_keepsPrevious(n) ==
    IF ~agentSocketUrl THEN n
    ELSE LET reconnecting == n.socket # 0
             fresh == CHOOSE s \in FreeSlots(n) : \A t \in FreeSlots(n) : s <= t
         IN [n EXCEPT !.connectionState = IF reconnecting THEN "reconnecting" ELSE "connecting",
                      !.socket = fresh,
                      !.sessions[fresh] = [phase |-> "connecting", errored |-> FALSE,
                                           disposed |-> FALSE],
                      !.written = IF n.written = fresh THEN 0 ELSE n.written]

connect(n) ==
    IF ~agentSocketUrl THEN n
    ELSE LET reconnecting == n.socket # 0
             d == disposeSocket(n)
             fresh == CHOOSE s \in FreeSlots(n) : \A t \in FreeSlots(n) : s <= t
         IN [d EXCEPT !.connectionState = IF reconnecting THEN "reconnecting" ELSE "connecting",
                      !.socket = fresh,
                      !.sessions[fresh] = [phase |-> "connecting", errored |-> FALSE,
                                           disposed |-> FALSE],
                      !.written = IF d.written = fresh THEN 0 ELSE d.written]

\* variant: arms a timer whether or not one is pending
scheduleReconnect_unguarded(n) ==
    IF ~platformBrowser THEN n
    ELSE [n EXCEPT !.reconnectTimer = TRUE, !.pendingTimers = @ + 1]

\* variant: never arms the timer
scheduleReconnect_never(n) == n

\* reconnectTimer: the handle is set; pendingTimers: the callbacks that
\* setTimeout holds and clearTimeout has not cancelled
scheduleReconnect(n) ==
    IF n.reconnectTimer \/ ~platformBrowser THEN n
    ELSE [n EXCEPT !.reconnectTimer = TRUE, !.pendingTimers = @ + 1]

handleDisconnect(n) ==
    IF n.manualClose
    THEN [n EXCEPT !.connectionState = "disconnected", !.manualClose = FALSE]
    ELSE scheduleReconnect([n EXCEPT !.connectionState = "disconnected"])

handleError(n) ==
    scheduleReconnect([n EXCEPT !.connectionState = "disconnected"])

\* variant: connects only when there is no socket object
send_onlyWithoutSocket(n) ==
    LET c == IF n.socket = 0 THEN connect(n) ELSE n
    IN [c EXCEPT !.written = c.socket, !.sendConnected = (n.socket = 0)]

\* variant: connects whenever the status is not connected
send_unlessConnected(n) ==
    LET connects == n.connectionState # "connected"
        c == IF connects THEN connect(n) ELSE n
    IN [c EXCEPT !.written = c.socket, !.sendConnected = connects]

\* written: the socket the command was handed to (0 when there was none);
\* sendConnected: whether this call of send() called connect()
send(n) ==
    LET connects == n.socket = 0 \/ n.connectionState = "disconnected"
        c == IF connects THEN connect(n) ELSE n
    IN [c EXCEPT !.written = c.socket, !.sendConnected = connects]

disconnect(n) ==
    disposeSocket([n EXCEPT !.manualClose = TRUE])

\* connect() needs a slot for the socket it creates
CanConnect(n) == agentSocketUrl => FreeSlots(n) # {}
CanSend(n) == (n.socket = 0 \/ n.connectionState = "disconnected") => CanConnect(n)

(***************************************************************************)
(* Stream events and messages                                              *)
(***************************************************************************)
AgentResponseStatus ==
    {"queued", "thinking", "streaming", "completed", "celebrating", "error", "stopped"}

AgentStreamEventType ==
    {"response-start", "response-token", "response-status", "response-end",
     "response-error", "response-stop", "response-celebration"}

\* createConversationId(): a fresh identifier on every call
createConversationId(used) == used + 1

\* createMessageId(): a fresh identifier; messages are only ever appended, so
\* the position of the new message names it
createMessageId(current) == "message-" \o ToString(Len(current) + 1)

UserMessage(current, rawValue) ==
    [id |-> createMessageId(current), role |-> "user", content |-> rawValue,
     responseId |-> Undefined, status |-> Undefined, tokens |-> <<>>,
     isStreaming |-> FALSE, finished |-> FALSE, visible |-> TRUE]

IsAgent(m) == m.role = "agent"

\* the indices of a sequence whose element passes a test
Hits(seq, Test(_)) == {i \in 1..Len(seq) : Test(seq[i])}

\* Array.prototype.findIndex: the least index passing the test, 0 for -1
First(hits) == IF hits = {} THEN 0 ELSE CHOOSE i \in hits : \A j \in hits : i <= j

\* [...seq].reverse().find(...): the greatest index passing the test, 0 for none
Last(hits) == IF hits = {} THEN 0 ELSE CHOOSE i \in hits : \A j \in hits : i >= j

\* variant: releases the earliest hidden message whatever precedes it
releaseQueuedAgentResponses_anyPrevious(msgs) ==
    LET Hidden(m) == IsAgent(m) /\ ~m.visible
        hiddenIndex == First(Hits(msgs, Hidden))
    IN IF hiddenIndex = 0 THEN msgs
       ELSE [msgs EXCEPT ![hiddenIndex].visible = TRUE]

\* variant: the test on the previous agent message is inverted
releaseQueuedAgentResponses_unfinishedPrevious(msgs) ==
    LET Hidden(m) == IsAgent(m) /\ ~m.visible
        hiddenIndex == First(Hits(msgs, Hidden))
    IN IF hiddenIndex = 0 THEN msgs
       ELSE LET previousAgent == Last(Hits(SubSeq(msgs, 1, hiddenIndex - 1), IsAgent))
            IN IF previousAgent # 0 /\ ~msgs[previousAgent].finished
               THEN [msgs EXCEPT ![hiddenIndex].visible = TRUE]
               ELSE msgs

releaseQueuedAgentResponses(msgs) ==
    LET Hidden(m) == IsAgent(m) /\ ~m.visible
        hiddenIndex == First(Hits(msgs, Hidden))
    IN IF hiddenIndex = 0 THEN msgs
       ELSE LET previousAgent == Last(Hits(SubSeq(msgs, 1, hiddenIndex - 1), IsAgent))
            IN IF previousAgent = 0 \/ msgs[previousAgent].finished
               THEN [msgs EXCEPT ![hiddenIndex].visible = TRUE]
               ELSE msgs

\* variant: the lookup tests the wrong role, so every event appends a message
ensureAgentMessage_wrongRole(msgs, event) ==
    LET hasActiveAgent == \E i \in 1..Len(msgs) : IsAgent(msgs[i]) /\ ~msgs[i].finished
        initialStatus ==
            Coalesce(event.status,
                     IF event.type = "response-token" THEN "streaming" ELSE "thinking")
        insertion ==
            [id |-> event.responseId, role |-> "agent",
             responseId |-> event.responseId,
             content |-> Coalesce(event.content, ""),
             tokens |-> Coalesce(event.tokens, <<>>),
             status |-> initialStatus,
             isStreaming |-> initialStatus \in {"thinking", "streaming"},
             finished |-> FALSE,
             visible |-> ~hasActiveAgent]
    IN [messages |-> Append(msgs, insertion), index |-> Len(msgs) + 1]

\* variant: a new message is put in front of the sequence
ensureAgentMessage_prepends(msgs, event) ==
    LET Matches(m) == m.responseId = event.responseId /\ IsAgent(m)
        existingIndex == First(Hits(msgs, Matches))
    IN IF existingIndex # 0 THEN [messages |-> msgs, index |-> existingIndex]
       ELSE LET hasActiveAgent == \E i \in 1..Len(msgs) : IsAgent(msgs[i]) /\ ~msgs[i].finished
                initialStatus ==
                    Coalesce(event.status,
                             IF event.type = "response-token" THEN "streaming" ELSE "thinking")
                insertion ==
                    [id |-> event.responseId, role |-> "agent",
                     responseId |-> event.responseId,
                     content |-> Coalesce(event.content, ""),
                     tokens |-> Coalesce(event.tokens, <<>>),
                     status |-> initialStatus,
                     isStreaming |-> initialStatus \in {"thinking", "streaming"},
                     finished |-> FALSE,
                     visible |-> ~hasActiveAgent]
            IN [messages |-> <<insertion>> \o msgs, index |-> 1]

\* returns the (possibly extended) sequence and the index of the event's message
ensureAgentMessage(msgs, event) ==
    LET Matches(m) == m.responseId = event.responseId /\ IsAgent(m)
        existingIndex == First(Hits(msgs, Matches))
    IN IF existingIndex # 0 THEN [messages |-> msgs, index |-> existingIndex]
       ELSE LET hasActiveAgent == \E i \in 1..Len(msgs) : IsAgent(msgs[i]) /\ ~msgs[i].finished
                initialStatus ==
                    Coalesce(event.status,
                             IF event.type = "response-token" THEN "streaming" ELSE "thinking")
                insertion ==
                    [id |-> event.responseId, role |-> "agent",
                     responseId |-> event.responseId,
                     content |-> Coalesce(event.content, ""),
                     tokens |-> Coalesce(event.tokens, <<>>),
                     status |-> initialStatus,
                     isStreaming |-> initialStatus \in {"thinking", "streaming"},
                     finished |-> FALSE,
                     visible |-> ~hasActiveAgent]
            IN [messages |-> Append(msgs, insertion), index |-> Len(msgs) + 1]

\* variant: a finished message ignores token and status events
applyEvent_skipsFinished(target, event) ==
    CASE event.type = "response-start" ->
           [target EXCEPT !.status = Coalesce(event.status, "thinking"),
                          !.isStreaming = TRUE]
      [] event.type = "response-token" /\ ~target.finished ->
           [target EXCEPT !.status = "streaming",
                          !.isStreaming = TRUE,
                          !.tokens = Append(target.tokens, Coalesce(event.token, "")),
                          !.content = target.content \o Coalesce(event.token, "")]
      [] event.type = "response-status" /\ ~target.finished ->
           [target EXCEPT !.status = Coalesce(event.status, target.status),
                          !.isStreaming = event.status \in {Some("thinking"), Some("streaming")}]
      [] event.type = "response-end" ->
           [target EXCEPT !.status = Coalesce(event.status, "completed"),
                          !.isStreaming = FALSE,
                          !.finished = TRUE,
                          !.content = Coalesce(event.content, target.content)]
      [] event.type = "response-error" ->
           [target EXCEPT !.status = "error", !.isStreaming = FALSE, !.finished = TRUE]
      [] event.type = "response-stop" ->
           [target EXCEPT !.status = "stopped", !.isStreaming = FALSE, !.finished = TRUE]
      [] OTHER -> target

\* variant: a response-start reopens its message
applyEvent_startReopens(target, event) ==
    CASE event.type = "response-start" ->
           [target EXCEPT !.status = Coalesce(event.status, "thinking"),
                          !.isStreaming = TRUE,
                          !.finished = FALSE]
      [] event.type = "response-token" ->
           [target EXCEPT !.status = "streaming",
                          !.isStreaming = TRUE,
                          !.tokens = Append(target.tokens, Coalesce(event.token, "")),
                          !.content = target.content \o Coalesce(event.token, "")]
      [] event.type = "response-status" ->
           [target EXCEPT !.status = Coalesce(event.status, target.status),
                          !.isStreaming = event.status \in {Some("thinking"), Some("streaming")}]
      [] event.type = "response-end" ->
           [target EXCEPT !.status = Coalesce(event.status, "completed"),
                          !.isStreaming = FALSE,
                          !.finished = TRUE,
                          !.content = Coalesce(event.content, target.content)]
      [] event.type = "response-error" ->
           [target EXCEPT !.status = "error", !.isStreaming = FALSE, !.finished = TRUE]
      [] event.type = "response-stop" ->
           [target EXCEPT !.status = "stopped", !.isStreaming = FALSE, !.finished = TRUE]
      [] OTHER -> target

\* the switch over event.type
applyEvent(target, event) ==
    CASE event.type = "response-start" ->
           [target EXCEPT !.status = Coalesce(event.status, "thinking"),
                          !.isStreaming = TRUE]
      [] event.type = "response-token" ->
           [target EXCEPT !.status = "streaming",
                          !.isStreaming = TRUE,
                          !.tokens = Append(target.tokens, Coalesce(event.token, "")),
                          !.content = target.content \o Coalesce(event.token, "")]
      [] event.type = "response-status" ->
           [target EXCEPT !.status = Coalesce(event.status, target.status),
                          !.isStreaming = event.status \in {Some("thinking"), Some("streaming")}]
      [] event.type = "response-end" ->
           [target EXCEPT !.status = Coalesce(event.status, "completed"),
                          !.isStreaming = FALSE,
                          !.finished = TRUE,
                          !.content = Coalesce(event.content, target.content)]
      [] event.type = "response-error" ->
           [target EXCEPT !.status = "error", !.isStreaming = FALSE, !.finished = TRUE]
      [] event.type = "response-stop" ->
           [target EXCEPT !.status = "stopped", !.isStreaming = FALSE, !.finished = TRUE]
      [] OTHER -> target

\* the updater passed to messages.update() by handleStreamEvent
updateForEvent(current, event) ==
    LET ensured == ensureAgentMessage(current, event)
        index == ensured.index
        nextMessage == applyEvent(ensured.messages[index], event)
        updated == [ensured.messages EXCEPT ![index] = nextMessage]
    IN IF nextMessage.finished THEN releaseQueuedAgentResponses(updated) ELSE updated

\* variant: the conversation id of the event is not compared
handleStreamEvent_anyConversation(convId, current, event) ==
    updateForEvent(current, event)

handleStreamEvent(convId, current, event) ==
    IF event.conversationId # convId THEN current ELSE updateForEvent(current, event)

\* AiStreamService.dispatch: TRUE when the payload is forwarded to events$
\* a payload is None (null), or Some(record); the record's type is optional
StartsWithResponse(t) == Len(t) >= 8 /\ SubSeq(t, 1, 8) = "response"
dispatch(payload) ==
    /\ payload # None
    /\ payload[1].type # None
    /\ StartsWithResponse(payload[1].type[1])

\* the forwarded payload read as an AgentStreamEvent (its type is present)
AsEvent(payload) == [payload[1] EXCEPT !.type = payload[1].type[1]]

\* the message stopStreaming() acts on, 0 when it returns early
activeIndex(current) ==
    LET Streaming(m) == IsAgent(m) /\ m.isStreaming
        active == Last(Hits(current, Streaming))
    IN IF active = 0 \/ current[active].responseId = Undefined THEN 0 ELSE active

\* the updater passed to messages.update() by stopStreaming
updateForStop(current, active) ==
    LET SameId(m) == m.id = current[active].id
        index == First(Hits(current, SameId))
    IN IF index = 0 THEN current
       ELSE releaseQueuedAgentResponses(
              [current EXCEPT ![index].status = "stopped",
                              ![index].isStreaming = FALSE,
                              ![index].finished = TRUE])

(***************************************************************************)
(* Inputs                                                                  *)
(***************************************************************************)
ResponseIds == <<"r1", "r2", "r3", "r4">>
ConversationIds == 1..MaxConversations
Prompts == {"hello"}

\* stream events; fields the handlers never read for a type are left out
Events(convs, rids, types, statuses, texts, lists, contents) ==
    {e \in [conversationId : convs, responseId : rids, type : types,
            status : Opt(statuses), token : Opt(texts), tokens : Opt(lists),
            content : Opt(contents)] :
        e.token # None => e.type = "response-token"}

\* the decoded frame that carries an event: an object whose type is present
Frame(e) == Some([e EXCEPT !.type = Some(e.type)])

\* decoded frames that carry no event: null (also the result of a failed
\* decode), an object without type, a command echoed back
Junk ==
    {None} \cup
    {Some([conversationId |-> 1, responseId |-> "r1", type |-> t, status |-> None,
           token |-> None, tokens |-> None, content |-> None]) :
        t \in {None, Some("user-message")}}

\* user messages plus tokens of all messages
Load(msgs) ==
    LET RECURSIVE Sum(_)
        Sum(i) == IF i = 0 THEN 0
                  ELSE (IF IsAgent(msgs[i]) THEN Len(msgs[i].tokens) ELSE 1) + Sum(i - 1)
    IN Sum(Len(msgs))

WithinBounds(msgs) == Load(msgs) <= MaxLoad

\* response ids of the agent messages of a sequence
AgentIds(msgs) == {msgs[i].responseId : i \in {j \in 1..Len(msgs) : IsAgent(msgs[j])}}

\* Response ids are opaque to the client (it only compares them), so a
\* response it has not seen yet carries the first id not in use: the ids an
\* event can carry when at most n responses are in play
KnownOrNext(msgs, n) ==
    {ResponseIds[k] : k \in {j \in 1..n : \A i \in 1..(j - 1) : ResponseIds[i] \in AgentIds(msgs)}}

(***************************************************************************)
(* Actions of the conversation store (App)                                 *)
(***************************************************************************)
\* history of the visibility each unfinished message was created with
Born(before, after, born) ==
    LET all == IF Len(after) > Len(before) /\ IsAgent(after[Len(after)])
                  /\ after[Len(after)].visible
               THEN born \cup {after[Len(after)].responseId}
               ELSE born
    IN {r \in all : \E i \in 1..Len(after) :
            IsAgent(after[i]) /\ after[i].responseId = r /\ ~after[i].finished}

\* a frame arrives on an open session: subscribe.next -> dispatch -> events$ ->
\* handleStreamEvent
Receive(payload) ==
    /\ \E s \in SessionIds : net.sessions[s].phase = "open"
    /\ messages' = IF dispatch(payload)
                   THEN handleStreamEvent(conversationId, messages, AsEvent(payload))
                   ELSE messages
    /\ bornVisible' = Born(messages, messages', bornVisible)
    /\ UNCHANGED <<conversationId, net, userClosed, agentSocketUrl, platformBrowser>>

Deliver(payload) ==
    /\ Receive(payload)
    /\ WithinBounds(messages')
    /\ UNCHANGED <<script, pc>>

submitPrompt(rawValue) ==
    /\ Load(messages) < MaxLoad
    /\ CanSend(net)
    /\ messages' = Append(messages, UserMessage(messages, rawValue))
    /\ net' = send(net)
    /\ userClosed' = FALSE
    /\ UNCHANGED <<conversationId, bornVisible, agentSocketUrl, platformBrowser, script, pc>>

stopStreaming ==
    /\ activeIndex(messages) # 0
    /\ CanSend(net)
    /\ net' = send(net)
    /\ userClosed' = FALSE
    /\ messages' = updateForStop(messages, activeIndex(messages))
    /\ bornVisible' = Born(messages, messages', bornVisible)
    /\ UNCHANGED <<conversationId, agentSocketUrl, platformBrowser, script, pc>>

startNewChat ==
    /\ conversationId < MaxConversations
    /\ CanSend(net)
    /\ conversationId' = createConversationId(conversationId)
    /\ messages' = <<>>
    /\ bornVisible' = {}
    /\ net' = send(net)
    /\ userClosed' = FALSE
    /\ UNCHANGED <<agentSocketUrl, platformBrowser, script, pc>>

(***************************************************************************)
(* The store over an established session                                   *)
(***************************************************************************)
\* the state after both constructors ran and the microtask queued by App's
\* constructor sent new-session
Constructed ==
    send(IF platformBrowser THEN connect(NewService) ELSE NewService)

\* openObserver
onOpen(n, s) ==
    [n EXCEPT !.sessions[s].phase = "open", !.connectionState = "connected"]

\* the first session has opened
Established ==
    /\ agentSocketUrl = TRUE
    /\ platformBrowser = TRUE
    /\ net = onOpen(Constructed, 1)
    /\ userClosed = FALSE
    /\ conversationId = 1

\* SpecStore: two responses, events of every type with and without a status
StoreEvents ==
    Events({conversationId}, KnownOrNext(messages, 2),
           AgentStreamEventType \cup {"response-other"},
           {"queued", "thinking", "completed"}, {"a"}, {}, {})

InitStore == Established /\ messages = <<>> /\ bornVisible = {} /\ script = <<>> /\ pc = 0

NextStore ==
    \/ \E e \in StoreEvents : Deliver(Frame(e))
    \/ \E payload \in Junk : Deliver(payload)
    \/ \E rawValue \in Prompts : submitPrompt(rawValue)
    \/ stopStreaming
    \/ startNewChat

SpecStore == InitStore /\ [][NextStore]_vars

\* SpecQueue: three responses in flight, events without optional fields
QueueEvents ==
    Events({conversationId}, KnownOrNext(messages, 3), AgentStreamEventType,
           {}, {}, {}, {})

NextQueue ==
    \/ \E e \in QueueEvents : Deliver(Frame(e))
    \/ \E rawValue \in Prompts : submitPrompt(rawValue)
    \/ stopStreaming
    \/ startNewChat

SpecQueue == InitStore /\ [][NextQueue]_vars

\* SpecRelease: four responses in flight; start, status and end events only
ReleaseEvents ==
    Events({conversationId}, KnownOrNext(messages, 4),
           {"response-start", "response-status", "response-end"}, {}, {}, {}, {})

NextRelease ==
    \/ \E e \in ReleaseEvents : Deliver(Frame(e))
    \/ \E rawValue \in Prompts : submitPrompt(rawValue)
    \/ stopStreaming
    \/ startNewChat

SpecRelease == InitStore /\ [][NextRelease]_vars

\* SpecReset: events of the active and of every other conversation
ResetEvents ==
    Events(ConversationIds, KnownOrNext(messages, 2), AgentStreamEventType,
           {}, {}, {}, {})

NextReset ==
    \/ \E e \in ResetEvents : Deliver(Frame(e))
    \/ \E rawValue \in Prompts : submitPrompt(rawValue)
    \/ stopStreaming
    \/ startNewChat

SpecReset == InitStore /\ [][NextReset]_vars

(***************************************************************************)
(* A scripted response: start, tokens, end for one response id             *)
(***************************************************************************)
ScriptStart ==
    Events({1}, {"r1"}, {"response-start"}, {"queued"}, {}, {<<"s">>}, {"X"})
ScriptToken ==
    Events({1}, {"r1"}, {"response-token"}, {}, {"a", "b"}, {}, {})
ScriptEnd ==
    Events({1}, {"r1"}, {"response-end"}, {"thinking"}, {}, {}, {"", "Z"})

Scripts ==
    {<<start>> \o mid \o <<end>> :
        start \in ScriptStart,
        mid \in UNION {[1..k -> ScriptToken] : k \in 0..MaxScriptTokens},
        end \in ScriptEnd}

\* stores of conversation 1 that hold no message for r1: empty, a user
\* message, another response in flight, another response finished
OtherResponse(type) ==
    [conversationId |-> 1, responseId |-> "r2", type |-> type, status |-> None,
     token |-> None, tokens |-> None, content |-> None]
ScriptStores ==
    {<<>>,
     <<UserMessage(<<>>, "hello")>>,
     handleStreamEvent(1, <<>>, OtherResponse("response-start")),
     handleStreamEvent(1, <<>>, OtherResponse("response-end"))}

InitScript ==
    /\ Established
    /\ messages \in ScriptStores
    /\ bornVisible = Born(<<>>, messages, {})
    /\ script \in Scripts
    /\ pc = 0

Replay ==
    /\ pc < Len(script)
    /\ Receive(Frame(script[pc + 1]))
    /\ pc' = pc + 1
    /\ script' = script

NextScript == Replay

SpecScript == InitScript /\ [][NextScript]_vars

(***************************************************************************)
(* Raw frames: the text a session delivers, before it is decoded           *)
(***************************************************************************)
\* a text frame and what JSON.parse makes of it: <<payload>>, or <<>> when
\* it throws a SyntaxError
WellFormed(payload) == [text |-> "json", parse |-> <<payload>>]
Malformed == [text |-> "{\"type\":\"response-start\",", parse |-> <<>>]

\* variant: a frame that does not parse is read as the start of a response
deserializer_salvages(e) ==
    IF e.parse = <<>>
    THEN Frame([conversationId |-> 1, responseId |-> "r2", type |-> "response-start",
                status |-> None, token |-> None, tokens |-> None, content |-> None])
    ELSE e.parse[1]

\* the deserializer of the socket: the catch clause returns null
deserializer(e) ==
    IF e.parse = <<>> THEN None ELSE e.parse[1]

RawFrames ==
    {Malformed, WellFormed(None)} \cup
    {WellFormed(Frame(e)) :
        e \in Events({1}, {"r1"}, {"response-start", "response-token", "response-end"},
                     {}, {"a"}, {}, {})}

FrameScripts == UNION {[1..k -> RawFrames] : k \in 1..MaxFrames}

InitDecode ==
    /\ Established
    /\ messages = <<>>
    /\ bornVisible = {}
    /\ script \in FrameScripts
    /\ pc = 0

ReplayFrame ==
    /\ pc < Len(script)
    /\ Receive(deserializer(script[pc + 1]))
    /\ pc' = pc + 1
    /\ script' = script

NextDecode == ReplayFrame

SpecDecode == InitDecode /\ [][NextDecode]_vars

(***************************************************************************)
(* The connection: AiStreamService and the sessions of its sockets          *)
(***************************************************************************)
\* closeObserver, and for a close that is not clean the error the socket
\* subject then raises to its subscriber (unless it raised one before)
onClose(n, s, wasClean) ==
    LET closed == [n EXCEPT !.sessions[s].phase = "closed"]
        d == handleDisconnect(closed)
    IN IF ~wasClean /\ ~n.sessions[s].errored
       THEN handleError([d EXCEPT !.sessions[s].errored = TRUE])
       ELSE d

\* the error callback of subscribe
onError(n, s) ==
    handleError([n EXCEPT !.sessions[s].errored = TRUE])

\* the callback armed by scheduleReconnect
onReconnectTimer(n) ==
    connect([n EXCEPT !.reconnectTimer = FALSE, !.pendingTimers = @ - 1])

storeVars == <<conversationId, messages, bornVisible, script, pc>>

\* notifications of a session reach the service whether or not it still
\* holds the socket: complete() starts the closing handshake and returns
sockOpen(s) ==
    /\ net.sessions[s].phase = "connecting"
    /\ ~net.sessions[s].errored   \* a socket that reported an error closes
    /\ net' = onOpen(net, s)
    /\ UNCHANGED <<userClosed, agentSocketUrl, platformBrowser, storeVars>>

sockClose(s, wasClean) ==
    /\ net.sessions[s].phase \in {"connecting", "open"}
    /\ net' = onClose(net, s, wasClean)
    /\ UNCHANGED <<userClosed, agentSocketUrl, platformBrowser, storeVars>>

sockError(s) ==
    /\ net.sessions[s].phase \in {"connecting", "open"}
    /\ ~net.sessions[s].errored
    /\ net' = onError(net, s)
    /\ UNCHANGED <<userClosed, agentSocketUrl, platformBrowser, storeVars>>

reconnectTimerFires ==
    /\ net.pendingTimers > 0
    /\ CanConnect(net)
    /\ net' = onReconnectTimer(net)
    /\ UNCHANGED <<userClosed, agentSocketUrl, platformBrowser, storeVars>>

Disconnect ==
    /\ net' = disconnect(net)
    /\ userClosed' = TRUE
    /\ UNCHANGED <<agentSocketUrl, platformBrowser, storeVars>>

sendUserPrompt ==
    /\ CanSend(net)
    /\ net' = send(net)
    /\ userClosed' = FALSE
    /\ UNCHANGED <<agentSocketUrl, platformBrowser, storeVars>>

stopResponse ==
    /\ CanSend(net)
    /\ net' = send(net)
    /\ userClosed' = FALSE
    /\ UNCHANGED <<agentSocketUrl, platformBrowser, storeVars>>

startNewSession ==
    /\ CanSend(net)
    /\ net' = send(net)
    /\ userClosed' = FALSE
    /\ UNCHANGED <<agentSocketUrl, platformBrowser, storeVars>>

InitConn ==
    /\ agentSocketUrl \in BOOLEAN
    /\ platformBrowser \in BOOLEAN
    /\ net = Constructed
    /\ userClosed = FALSE
    /\ conversationId = 1
    /\ messages = <<>>
    /\ bornVisible = {}
    /\ script = <<>>
    /\ pc = 0

NextConn ==
    \/ \E s \in SessionIds : sockOpen(s)
    \/ \E s \in SessionIds, wasClean \in BOOLEAN : sockClose(s, wasClean)
    \/ \E s \in SessionIds : sockError(s)
    \/ reconnectTimerFires
    \/ Disconnect
    \/ sendUserPrompt
    \/ stopResponse
    \/ startNewSession

SpecConn == InitConn /\ [][NextConn]_vars

\* SpecRetry: the browser client with a socket URL whose sessions all fail;
\* disconnect() is never called.  Every session ends in a close that is not
\* clean, and an armed timer fires.
InitRetry ==
    /\ agentSocketUrl = TRUE
    /\ platformBrowser = TRUE
    /\ net = Constructed
    /\ userClosed = FALSE
    /\ conversationId = 1
    /\ messages = <<>>
    /\ bornVisible = {}
    /\ script = <<>>
    /\ pc = 0

NextRetry ==
    \/ \E s \in SessionIds : sockOpen(s)
    \/ \E s \in SessionIds : sockClose(s, FALSE)
    \/ \E s \in SessionIds : sockError(s)
    \/ reconnectTimerFires
    \/ sendUserPrompt
    \/ stopResponse
    \/ startNewSession

SpecRetry ==
    /\ InitRetry /\ [][NextRetry]_vars
    /\ WF_vars(reconnectTimerFires)
    /\ \A s \in SessionIds : WF_vars(sockClose(s, FALSE))

(***************************************************************************)
(* Properties of the conversation store                                    *)
(***************************************************************************)
Agents == {i \in 1..Len(messages) : IsAgent(messages[i])}

\* C1: in every reachable state at most one agent message is visible and
\* unfinished.
C1_SingleVisibleUnfinished ==
    Cardinality({i \in Agents : messages[i].visible /\ ~messages[i].finished}) <= 1

\* a visible unfinished message, a hidden unfinished one queued behind it and
\* a finished one before them
C1_Witness ==
    \E i, j, k \in Agents :
        /\ i < j /\ j < k
        /\ messages[i].finished /\ messages[i].visible
        /\ messages[j].visible /\ ~messages[j].finished
        /\ ~messages[k].visible /\ ~messages[k].finished

\* C8: no two agent messages of the sequence carry the same response id.
C8_OneMessagePerResponse ==
    \A i, j \in Agents : messages[i].responseId = messages[j].responseId => i = j

\* two responses, the first of which received further events after its first
C8_Witness ==
    \E i, j \in Agents :
        /\ i < j
        /\ messages[i].finished
        /\ messages[j].status = "streaming"

\* C9: every agent message with isStreaming = true has status thinking or
\* streaming and is not finished.
C9_StreamingImpliesLiveStatus ==
    \A i \in Agents :
        messages[i].isStreaming =>
            messages[i].status \in {"thinking", "streaming"} /\ ~messages[i].finished

\* C10: every finished agent message has status completed, error or stopped.
C10_FinishedImpliesTerminalStatus ==
    \A i \in Agents :
        messages[i].finished => messages[i].status \in {"completed", "error", "stopped"}

\* C2 as stated: a message created while an agent message is unfinished starts
\* hidden, and when a response whose message was created visible finishes,
\* every message created after it is visible in the next state.
C2_LaterResponseShownWhenFirstFinishes ==
    [][/\ (/\ Len(messages') = Len(messages) + 1
           /\ IsAgent(messages'[Len(messages')])
           /\ \E a \in Agents :
                 messages[a].responseId \in bornVisible /\ ~messages[a].finished)
          => ~messages'[Len(messages')].visible
       /\ \A a, b \in Agents :
            (/\ a < b
             /\ messages[a].responseId \in bornVisible
             /\ ~messages[a].finished
             /\ Len(messages') >= Len(messages)
             /\ messages'[a].finished)
            => messages'[b].visible]_vars

\* C2 amended: a message created while an agent message is unfinished starts
\* hidden, and when a response whose message was created visible finishes, a
\* message created after it is visible in the next state provided no other
\* hidden agent message precedes it.
C2_EarliestHiddenShownWhenFirstFinishes ==
    [][/\ (/\ Len(messages') = Len(messages) + 1
           /\ IsAgent(messages'[Len(messages')])
           /\ \E a \in Agents :
                 messages[a].responseId \in bornVisible /\ ~messages[a].finished)
          => ~messages'[Len(messages')].visible
       /\ \A a, b \in Agents :
            (/\ a < b
             /\ messages[a].responseId \in bornVisible
             /\ ~messages[a].finished
             /\ Len(messages') >= Len(messages)
             /\ messages'[a].finished
             /\ \A c \in Agents : c < b => messages[c].visible)
            => messages'[b].visible]_vars

\* a message that was created hidden is now visible and unfinished, after a
\* finished one
C2_Witness ==
    \E a, b \in Agents :
        /\ a < b
        /\ messages[a].finished
        /\ messages[b].visible /\ ~messages[b].finished
        /\ messages[b].responseId \notin bornVisible

\* the response-status events of the active conversation
StatusEvents ==
    Events({conversationId}, {ResponseIds[k] : k \in 1..4}, {"response-status"},
           AgentResponseStatus, {}, {}, {})

\* C7: processing a response-status event twice in a row leaves the message
\* sequence as it is after processing it once.
C7_StatusEventIdempotent ==
    \A e \in StatusEvents :
        LET once == handleStreamEvent(conversationId, messages, e)
        IN handleStreamEvent(conversationId, once, e) = once

\* texts of the token events of a script, concatenated in arrival order
TokenTexts(sc) ==
    LET RECURSIVE Cat(_)
        Cat(i) == IF i = 0 THEN ""
                  ELSE Cat(i - 1) \o (IF sc[i].type = "response-token"
                                      THEN Coalesce(sc[i].token, "") ELSE "")
    IN Cat(Len(sc))

ScriptDone == script # <<>> /\ pc = Len(script)
ScriptMessage == messages[CHOOSE i \in Agents : messages[i].responseId = "r1"]

\* C3: after start, token*, end the message is finished, not
\* streaming, and its content is the end event's content when supplied and
\* otherwise the concatenation of the token texts in arrival order.
C3_ContentIsEndOrTokens ==
    ScriptDone =>
        /\ ScriptMessage.finished
        /\ ~ScriptMessage.isStreaming
        /\ ScriptMessage.content =
             Coalesce(script[Len(script)].content, TokenTexts(script))

\* events that carry the id of a conversation replaced earlier
OldEvents(active) ==
    Events({c \in ConversationIds : c < active}, {"r1", "r2", "r3"},
           AgentStreamEventType, {"thinking"}, {"a"}, {}, {"X"})

\* C4: startNewChat installs a conversation id never used before and empties
\* the message sequence in the same step, and after every step an event that
\* carries an earlier conversation id leaves the message sequence unchanged.
C4_ResetDropsOldConversation ==
    [][/\ startNewChat =>
            /\ conversationId' \notin 1..conversationId
            /\ messages' = <<>>
       /\ \A e \in OldEvents(conversationId') :
            handleStreamEvent(conversationId', messages', e) = messages']_vars

\* after a reset the new conversation holds a visible unfinished message and a
\* hidden one
C4_Witness ==
    /\ conversationId > 1
    /\ \E i, j \in Agents :
         /\ messages[i].visible /\ ~messages[i].finished
         /\ ~messages[j].visible

(***************************************************************************)
(* Properties of the connection                                            *)
(***************************************************************************)
\* C5: after disconnect(), and until the caller issues a send operation, no
\* reconnect timer is pending and no new session is created.
C5_DisconnectNeverReconnects ==
    [][userClosed' =>
          /\ ~net'.reconnectTimer
          /\ userClosed => LiveSessions(net') \subseteq LiveSessions(net)]_vars

SendStep == sendUserPrompt \/ stopResponse \/ startNewSession

\* C6: a send operation called while the status is disconnected calls
\* connect() exactly once, before the write: with a socket URL exactly one
\* new session is created and the command is handed to its socket; without
\* one connect() returns at once and there is no socket to write to.
C6_SendConnectsOnceBeforeWriting ==
    [][(SendStep /\ net.connectionState = "disconnected") =>
          /\ net'.written = net'.socket
          /\ IF agentSocketUrl
             THEN /\ Cardinality(LiveSessions(net')) = Cardinality(LiveSessions(net)) + 1
                  /\ net'.socket \in LiveSessions(net') \ LiveSessions(net)
             ELSE net'.sessions = net.sessions /\ net'.socket = 0]_vars

\* the current session was created by a send operation issued after the
\* status had become disconnected and disconnect() had dropped the socket
C6_Witness ==
    /\ net.manualClose /\ ~userClosed
    /\ net.socket # 0
    /\ net.connectionState = "connecting"
    /\ net.written = net.socket
    /\ \E s \in SessionIds : net.sessions[s].phase = "closed"
    /\ \A s \in SessionIds :
         /\ ~net.sessions[s].errored
         /\ s # net.socket => net.sessions[s].phase \in {"none", "closed"}

\* a decoded frame whose type is one of the seven response-event types
Recognized(payload) ==
    /\ payload # None
    /\ payload[1].type # None
    /\ payload[1].type[1] \in AgentStreamEventType

StorePayloads == {Frame(e) : e \in StoreEvents} \cup Junk

\* C11: a frame that is null, has no type, or has a type other than the seven
\* response-event types is not forwarded: receiving it leaves the store as
\* it is.
C11_OnlyRecognizedTypesForwarded ==
    [][\A payload \in StorePayloads :
          (Deliver(payload) /\ ~Recognized(payload)) => messages' = messages]_vars

\* sessions the service created and has not disposed of, still connecting or
\* open
Undisposed(n) == {s \in LiveSessions(n) : ~n.sessions[s].disposed}

C13_SendConnectsUnlessConnected ==
    [][(SendStep /\ net.connectionState # "connected") => net'.sendConnected]_vars

\* C13 amended: a send operation calls connect() before writing exactly when
\* the service holds no socket or the status is disconnected; otherwise, also
\* in the statuses connecting and reconnecting, it writes to the socket it
\* holds and creates none.
C13_SendConnectsWhenNoSocketOrDisconnected ==
    [][SendStep =>
          /\ net'.sendConnected <=> (net.socket = 0 \/ net.connectionState = "disconnected")
          /\ net'.written = net'.socket
          /\ ~net'.sendConnected =>
                /\ net'.socket = net.socket
                /\ net'.sessions = net.sessions
                /\ net'.connectionState = net.connectionState]_vars

\* the last send operation found the status reconnecting and wrote to the
\* socket held, which had not opened yet, without calling connect()
C13_Witness ==
    /\ ~net.sendConnected
    /\ net.connectionState = "reconnecting"
    /\ net.socket # 0
    /\ net.written = net.socket
    /\ net.sessions[net.socket].phase = "connecting"

\* C14: at most one reconnect timer is pending, also after a close and an
\* error notification for the same failure.
C14_SingleReconnectTimer ==
    /\ net.pendingTimers <= 1
    /\ net.reconnectTimer <=> net.pendingTimers = 1

\* one timer is pending after a session closed uncleanly, which raises a close
\* and an error notification
C14_Witness ==
    /\ net.pendingTimers = 1
    /\ \E s \in SessionIds :
         net.sessions[s].phase = "closed" /\ net.sessions[s].errored

\* C15: in the browser, when the session the service holds (on which
\* disconnect() was therefore not called) reports an error or closes, the
\* status is disconnected and a reconnect timer is pending right after the
\* notification is handled; a disconnect() issued before the session was
\* opened does not suppress its reconnect.
C15_CurrentSessionFailureReconnects ==
    [][\A s \in SessionIds :
          (/\ platformBrowser
           /\ s = net.socket
           /\ sockError(s) \/ \E wasClean \in BOOLEAN : sockClose(s, wasClean))
          => (net'.connectionState = "disconnected" /\ net'.reconnectTimer)]_vars

\* a step in which connect() is called
Connects ==
    \/ reconnectTimerFires
    \/ (sendUserPrompt \/ stopResponse \/ startNewSession) /\ net'.sendConnected

\* C16: when disconnect() is never called and every session ends in an
\* abnormal close or an error, connect() is called again and again without
\* end.
C16_ReconnectsForever == []<><<Connects>>_vars

\* two attempts have failed and a further one is under way
C16_Witness ==
    /\ net.socket # 0
    /\ net.sessions[net.socket].phase = "connecting"
    /\ net.connectionState = "reconnecting"
    /\ Cardinality({s \in SessionIds :
           net.sessions[s].phase = "closed" /\ net.sessions[s].errored}) >= 2

\* C17: a frame that fails to decode produces no event (the store stays as
\* it is) and leaves the status, the socket and the reconnect timer as they
\* are.
C17_MalformedFrameDropped ==
    [][(ReplayFrame /\ script[pc + 1].parse = <<>>) =>
          /\ messages' = messages
          /\ net' = net]_vars

\* a malformed frame has been received while a response was streaming, and
\* the session is still connected
C17_Witness ==
    /\ pc > 0
    /\ script[pc].parse = <<>>
    /\ \E i \in Agents : messages[i].isStreaming
    /\ net.connectionState = "connected"
    /\ ~net.reconnectTimer

\* the message of a response id in a sequence (the sequence holds one)
MessageOf(msgs, rid) ==
    msgs[CHOOSE i \in 1..Len(msgs) : IsAgent(msgs[i]) /\ msgs[i].responseId = rid]

\* C18: after a response-celebration event of the active conversation the
\* message of its response id has status celebrating, and its finished flag
\* is as it was before the event.
C18_CelebrationSetsStatus ==
    [][\A e \in StoreEvents :
          (e.type = "response-celebration" /\ Deliver(Frame(e))) =>
             /\ MessageOf(messages', e.responseId).status = "celebrating"
             /\ e.responseId \in AgentIds(messages) =>
                  MessageOf(messages', e.responseId).finished =
                  MessageOf(messages, e.responseId).finished]_vars

\* C19: an event whose message is already finished is applied like any
\* other: a token is appended to tokens and to content and sets the status
\* to streaming, a status event overrides the status.
C19_FinishedMessageStillUpdated ==
    \A e \in StoreEvents :
        (/\ e.responseId \in AgentIds(messages)
         /\ MessageOf(messages, e.responseId).finished) =>
           LET before == MessageOf(messages, e.responseId)
               after == MessageOf(handleStreamEvent(conversationId, messages, e),
                                  e.responseId)
           IN /\ e.type = "response-token" =>
                   /\ after.tokens = Append(before.tokens, Coalesce(e.token, ""))
                   /\ after.content = before.content \o Coalesce(e.token, "")
                   /\ after.status = "streaming"
              /\ (e.type = "response-status" /\ e.status # None) =>
                   after.status = e.status[1]

\* a stopped message has received a token afterwards
C19_Witness ==
    \E i \in Agents :
        /\ messages[i].finished
        /\ messages[i].status = "streaming"
        /\ messages[i].tokens # <<>>

\* C20: between resets the message sequence is append-only: a step other
\* than startNewChat keeps every message at its position and adds at most
\* one message, at the end.
C20_AppendOnly ==
    [][\/ startNewChat
       \/ /\ Len(messages') \in {Len(messages), Len(messages) + 1}
          /\ \A i \in 1..Len(messages) :
               /\ messages'[i].id = messages[i].id
               /\ messages'[i].role = messages[i].role]_vars

\* a response, a prompt and a later response are held in arrival order
C20_Witness ==
    /\ Len(messages) >= 3
    /\ IsAgent(messages[1])
    /\ ~IsAgent(messages[2])
    /\ IsAgent(messages[3])

\* C21: once every agent message of the conversation is finished, every
\* agent message is visible.
C21_AllFinishedAllVisible ==
    (Agents # {} /\ \A i \in Agents : messages[i].finished) =>
        \A i \in Agents : messages[i].visible

\* C22: whenever the status is connected no reconnect timer is pending, and
\* the close notification of a session the service no longer holds leaves
\* an open current session connected and arms no timer.
C22_LateCloseLeavesCurrentSession ==
    [][/\ net'.connectionState = "connected" => ~net'.reconnectTimer
       /\ \A s \in SessionIds, wasClean \in BOOLEAN :
            (/\ sockClose(s, wasClean)
             /\ s # net.socket
             /\ net.socket # 0
             /\ net.sessions[net.socket].phase = "open"
             /\ net.connectionState = "connected"
             /\ ~net.reconnectTimer)
            => (net'.connectionState = "connected" /\ ~net'.reconnectTimer)]_vars

\* C23: finished is monotone: a step other than startNewChat keeps every
\* finished agent message in the sequence, and finished.
C23_FinishedIsMonotone ==
    [][\/ startNewChat
       \/ \A i \in Agents :
            messages[i].finished =>
               /\ i <= Len(messages')
               /\ messages'[i].responseId = messages[i].responseId
               /\ messages'[i].finished]_vars

\* a finished message has received a response-start or a status event
\* afterwards and is still finished
C23_Witness ==
    \E i \in Agents :
        /\ messages[i].finished
        /\ messages[i].isStreaming
        /\ messages[i].status = "thinking"

====
